---- MODULE Spec2Model ----
(***************************************************************************)
(* A model of the Architecture Agent API (app/main.py, app/models.py):     *)
(* the rule-based diagram synthesis of generate_architecture_endpoint and  *)
(* the file-backed diagram store of save_architecture_endpoint and         *)
(* get_architecture_endpoint.                                              *)
(*                                                                         *)
(* Strings that the code inspects (the prompt) are sequences of            *)
(* one-character strings, so that lower() and the `in` substring test are  *)
(* computed as Python computes them.  uuid.uuid4() is a fresh value: the   *)
(* n-th call of a run returns the string "uuid<n>".                        *)
(***************************************************************************)
EXTENDS Integers, Sequences, FiniteSets, TLC

VARIABLES
    prompt,     \* request.prompt of the pending /generate request
    uuid,       \* number of uuid.uuid4() values handed out so far
    response,   \* the response of the last handler that ran
    files,      \* the file system: path -> content, for the files that exist
    lastSaved,  \* history: diagram_id -> the last save call made with it
    nops,       \* number of store requests served so far
    saving,     \* the save request in flight in another worker, or None
    getting     \* the get request in flight in another worker, or None

vars == <<prompt, uuid, response, files, lastSaved, nops, saving, getting>>

\* Optional values: None is the empty sequence, a value x is <<x>>
None == <<>>
Some(x) == <<x>>
NoResponse == [op |-> "none"]    \* no handler has run yet

(***************************************************************************)
(* Bounds                                                                  *)
(***************************************************************************)
MaxWords == 3        \* a prompt is at most this many vocabulary words
MaxUuidStart == 1    \* uuid values handed out before the request: 0..MaxUuidStart

(***************************************************************************)
(* Prompts                                                                 *)
(***************************************************************************)
Vocabulary ==
    { <<"A","n","d","r","o","i","d">>,
      <<"i","O","S">>,
      <<"w","e","b">>,
      <<"b","r","o","w","s","e","r">>,
      <<"A","P","I">>,
      <<"b","a","c","k","e","n","d">>,
      <<"d","a","t","a","b","a","s","e">>,
      <<"S","t","o","r","a","g","e">>,
      <<"k","i","o","s","k">>,
      <<"W","e","b","A","P","I">>,
      <<"A","n","d","r","o","i","d","/","i","O","S">>,
      <<" ","a","p","p"," ">> }

RECURSIVE Concat(_)
Concat(ws) == IF ws = <<>> THEN <<>> ELSE Head(ws) \o Concat(Tail(ws))

Prompts ==
    { Concat(ws) : ws \in UNION { [1..n -> Vocabulary] : n \in 0..MaxWords } }

\* str.lower() on one character
LowerChar(c) ==
    CASE c = "A" -> "a"
      [] c = "P" -> "p"
      [] c = "I" -> "i"
      [] c = "O" -> "o"
      [] c = "S" -> "s"
      [] c = "W" -> "w"
      [] OTHER -> c

\* str.lower()
Lower(s) == [i \in 1..Len(s) |-> LowerChar(s[i])]

\* the Python test `sub in s`
Contains(sub, s) ==
    \E i \in 1..(Len(s) - Len(sub) + 1) : SubSeq(s, i, i + Len(sub) - 1) = sub

\* the Python slice s[:n]
Take(s, n) == SubSeq(s, 1, IF Len(s) < n THEN Len(s) ELSE n)

kw_android  == <<"a","n","d","r","o","i","d">>
kw_ios      == <<"i","o","s">>
kw_web      == <<"w","e","b">>
kw_browser  == <<"b","r","o","w","s","e","r">>
kw_api      == <<"a","p","i">>
kw_backend  == <<"b","a","c","k","e","n","d">>
kw_database == <<"d","a","t","a","b","a","s","e">>
kw_storage  == <<"s","t","o","r","a","g","e">>

NameChars == 50      \* request.prompt[:50]

(***************************************************************************)
(* The data model (app/models.py)                                          *)
(***************************************************************************)
ArchitectureComponent(id, name, type, technology) ==
    [id |-> id, name |-> name, type |-> type, technology |-> technology]

ArchitectureConnection(id, source, target, protocol) ==
    [id |-> id, source_component_id |-> source, target_component_id |-> target,
     protocol |-> protocol]

ArchitectureDiagram(diagram_id, name, description, components, connections, metadata) ==
    [diagram_id |-> diagram_id, name |-> name, description |-> description,
     components |-> components, connections |-> connections, metadata |-> metadata]

(***************************************************************************)
(* generate_architecture_endpoint                                          *)
(* The handler's locals are the fields of a builder record b; b.uuid is    *)
(* the number of uuid4 values drawn so far.                                *)
(***************************************************************************)
\* str(uuid.uuid4()) for the n-th value drawn
UuidStr(n) == "uuid" \o ToString(n)

CompId(n) == "comp_" \o UuidStr(n)
ConnId(n) == "conn_" \o UuidStr(n)
ArchId(n) == "arch_" \o UuidStr(n)

NewBuilder(u) ==
    [components |-> <<>>, connections |-> <<>>, client_components |-> <<>>,
     backend_services |-> <<>>, api_gateway_id |-> None, uuid |-> u]

AddClient(b, name, type, technology) ==
    [b EXCEPT !.components = Append(@, ArchitectureComponent(CompId(b.uuid), name, type, technology)),
              !.client_components = Append(@, CompId(b.uuid)),
              !.uuid = @ + 1]

MutClientTierExclusive(b, pl) ==
    IF Contains(kw_android, pl)
    THEN AddClient(b, "Android Client", "MobileClient", Some("Android/Kotlin/Java"))
    ELSE IF Contains(kw_ios, pl)
    THEN AddClient(b, "iOS Client", "MobileClient", Some("iOS/Swift"))
    ELSE IF Contains(kw_web, pl) \/ Contains(kw_browser, pl)
    THEN AddClient(b, "Web Client", "WebClient", Some("React/Angular/Vue"))
    ELSE b

ClientTier(b, pl) ==
    LET b1 == IF Contains(kw_android, pl)
              THEN AddClient(b, "Android Client", "MobileClient", Some("Android/Kotlin/Java"))
              ELSE b
        b2 == IF Contains(kw_ios, pl)
              THEN AddClient(b1, "iOS Client", "MobileClient", Some("iOS/Swift"))
              ELSE b1
    IN  IF Contains(kw_web, pl) \/ Contains(kw_browser, pl)
        THEN AddClient(b2, "Web Client", "WebClient", Some("React/Angular/Vue"))
        ELSE b2

MutBackendTierSameTarget(b, pl) ==
    IF Contains(kw_api, pl) \/ Contains(kw_backend, pl)
    THEN LET gw == CompId(b.uuid)
             us == CompId(b.uuid + 1)
             ps == CompId(b.uuid + 3)
         IN  [b EXCEPT
                !.api_gateway_id = Some(gw),
                !.components = @ \o
                    << ArchitectureComponent(gw, "API Gateway", "APIGateway", Some("e.g., Kong/NGINX/AWS API Gateway")),
                       ArchitectureComponent(us, "User Service", "Microservice", Some("e.g., Python/FastAPI")),
                       ArchitectureComponent(ps, "Product Service", "Microservice", Some("e.g., Node.js/Express")) >>,
                !.backend_services = @ \o <<us, ps>>,
                !.connections = @ \o
                    << ArchitectureConnection(ConnId(b.uuid + 2), gw, us, Some("HTTPS/REST")),
                       ArchitectureConnection(ConnId(b.uuid + 4), gw, us, Some("HTTPS/REST")) >>,
                !.uuid = @ + 5]
    ELSE b

BackendTier(b, pl) ==
    IF Contains(kw_api, pl) \/ Contains(kw_backend, pl)
    THEN LET gw == CompId(b.uuid)
             us == CompId(b.uuid + 1)
             ps == CompId(b.uuid + 3)
         IN  [b EXCEPT
                !.api_gateway_id = Some(gw),
                !.components = @ \o
                    << ArchitectureComponent(gw, "API Gateway", "APIGateway", Some("e.g., Kong/NGINX/AWS API Gateway")),
                       ArchitectureComponent(us, "User Service", "Microservice", Some("e.g., Python/FastAPI")),
                       ArchitectureComponent(ps, "Product Service", "Microservice", Some("e.g., Node.js/Express")) >>,
                !.backend_services = @ \o <<us, ps>>,
                !.connections = @ \o
                    << ArchitectureConnection(ConnId(b.uuid + 2), gw, us, Some("HTTPS/REST")),
                       ArchitectureConnection(ConnId(b.uuid + 4), gw, ps, Some("HTTPS/REST")) >>,
                !.uuid = @ + 5]
    ELSE b

\* for x in ids: connections.append(ArchitectureConnection(id=conn_<uuid>, ...))
RECURSIVE ConnectEach(_, _, _, _, _)
ConnectEach(b, ids, asSource, other, protocol) ==
    IF ids = <<>> THEN b
    ELSE LET c == IF asSource
                  THEN ArchitectureConnection(ConnId(b.uuid), Head(ids), other, protocol)
                  ELSE ArchitectureConnection(ConnId(b.uuid), other, Head(ids), protocol)
         IN  ConnectEach([b EXCEPT !.connections = Append(@, c), !.uuid = @ + 1],
                         Tail(ids), asSource, other, protocol)

MutWireClientsNoGatewayTest(b) ==
    IF b.client_components # <<>>
    THEN ConnectEach(b, b.client_components, TRUE,
                     IF b.api_gateway_id = None THEN "None" ELSE b.api_gateway_id[1],
                     Some("HTTPS"))
    ELSE b

WireClients(b) ==
    IF b.api_gateway_id # None /\ b.client_components # <<>>
    THEN ConnectEach(b, b.client_components, TRUE, b.api_gateway_id[1], Some("HTTPS"))
    ELSE b

MutDatabaseTierFirstServiceOnly(b, pl) ==
    IF Contains(kw_database, pl) \/ Contains(kw_storage, pl)
    THEN LET db == CompId(b.uuid)
             b1 == [b EXCEPT
                      !.components = Append(@, ArchitectureComponent(db, "Primary Database", "Database", Some("e.g., PostgreSQL/MongoDB/DynamoDB"))),
                      !.uuid = @ + 1]
         IN  IF b1.backend_services # <<>>
             THEN ConnectEach(b1, <<Head(b1.backend_services)>>, TRUE, db, Some("TCP/IP (specific to DB)"))
             ELSE b1
    ELSE b

DatabaseTier(b, pl) ==
    IF Contains(kw_database, pl) \/ Contains(kw_storage, pl)
    THEN LET db == CompId(b.uuid)
             b1 == [b EXCEPT
                      !.components = Append(@, ArchitectureComponent(db, "Primary Database", "Database", Some("e.g., PostgreSQL/MongoDB/DynamoDB"))),
                      !.uuid = @ + 1]
         IN  IF b1.backend_services # <<>>
             THEN ConnectEach(b1, b1.backend_services, TRUE, db, Some("TCP/IP (specific to DB)"))
             ELSE b1
    ELSE b

MutFallbackAlwaysDatabase(b, pl) ==
    IF b.components = <<>>
    THEN LET dc == CompId(b.uuid)
             db == CompId(b.uuid + 1)
         IN  [b EXCEPT
                !.components = @ \o
                    << ArchitectureComponent(dc, "Default Application Core", "Monolith", Some("Generic")),
                       ArchitectureComponent(db, "Primary Database", "Database", Some("e.g., PostgreSQL/MongoDB/DynamoDB")) >>,
                !.connections = Append(@, ArchitectureConnection(ConnId(b.uuid + 2), dc, db, Some("TCP/IP (specific to DB)"))),
                !.uuid = @ + 3]
    ELSE b

MutFallbackOnNoConnections(b, pl) ==
    IF b.connections = <<>>
    THEN LET dc == CompId(b.uuid)
             b1 == [b EXCEPT
                      !.components = Append(@, ArchitectureComponent(dc, "Default Application Core", "Monolith", Some("Generic"))),
                      !.uuid = @ + 1]
         IN  IF Contains(kw_database, pl) \/ Contains(kw_storage, pl)
             THEN LET db == CompId(b1.uuid)
                  IN  [b1 EXCEPT
                         !.components = Append(@, ArchitectureComponent(db, "Primary Database", "Database", Some("e.g., PostgreSQL/MongoDB/DynamoDB"))),
                         !.connections = Append(@, ArchitectureConnection(ConnId(b1.uuid + 1), dc, db, Some("TCP/IP (specific to DB)"))),
                         !.uuid = @ + 2]
             ELSE b1
    ELSE b

MutFallbackNone(b, pl) == b

Fallback(b, pl) ==
    IF b.components = <<>>
    THEN LET dc == CompId(b.uuid)
             b1 == [b EXCEPT
                      !.components = Append(@, ArchitectureComponent(dc, "Default Application Core", "Monolith", Some("Generic"))),
                      !.uuid = @ + 1]
         IN  IF Contains(kw_database, pl) \/ Contains(kw_storage, pl)
             THEN LET db == CompId(b1.uuid)
                  IN  [b1 EXCEPT
                         !.components = Append(@, ArchitectureComponent(db, "Primary Database", "Database", Some("e.g., PostgreSQL/MongoDB/DynamoDB"))),
                         !.connections = Append(@, ArchitectureConnection(ConnId(b1.uuid + 1), dc, db, Some("TCP/IP (specific to DB)"))),
                         !.uuid = @ + 2]
             ELSE b1
    ELSE b

\* the whole handler body: the builder after the last rule
Synthesize(p, u) ==
    LET pl == Lower(p)
        b0 == NewBuilder(u + 1)        \* uuid u is the diagram_id
        b1 == ClientTier(b0, pl)
        b2 == BackendTier(b1, pl)
        b3 == WireClients(b2)
        b4 == DatabaseTier(b3, pl)
    IN  Fallback(b4, pl)

GeneratedDiagram(p, u) ==
    LET b == Synthesize(p, u)
    IN  ArchitectureDiagram(
            ArchId(u),
            <<"Generated Architecture for: ", Take(p, NameChars), "...">>,
            Some("This architecture was automatically generated based on the provided prompt."),
            b.components,
            b.connections,
            Some([prompt |-> p, generator_version |-> "0.1.0"]))

Generate ==
    /\ response = NoResponse
    /\ response' = [op |-> "generate", status |-> 200, body |-> GeneratedDiagram(prompt, uuid)]
    /\ uuid' = Synthesize(prompt, uuid).uuid
    /\ UNCHANGED <<prompt, files, lastSaved, nops, saving, getting>>

Init ==
    /\ prompt \in Prompts
    /\ uuid \in 0..MaxUuidStart
    /\ response = NoResponse
    /\ files = <<>>
    /\ lastSaved = <<>>
    /\ nops = 0
    /\ saving = None
    /\ getting = None

Next == Generate

Spec == Init /\ [][Next]_vars

(***************************************************************************)
(* The file system under the working directory.  A path is the sequence of *)
(* its "/"-separated segments; the two directories made at import          *)
(* (main.py:9-13) are the only sub-directories of the working directory.   *)
(***************************************************************************)
UPLOADS_DIR == "uploaded_architectures"
SAVED_ARCHITECTURES_DIR == "saved_architectures"
CWD == "."
NoDir == "<no such directory>"
NoFile == <<NoDir, "">>

\* the directory a path segment leads to
StepDir(dir, seg) ==
    IF dir = NoDir THEN NoDir
    ELSE IF seg = "." THEN dir
    ELSE IF seg = ".." THEN (IF dir = CWD THEN NoDir ELSE CWD)
    ELSE IF dir = CWD /\ seg \in {UPLOADS_DIR, SAVED_ARCHITECTURES_DIR} THEN seg
    ELSE NoDir

RECURSIVE WalkDirs(_, _)
WalkDirs(dir, segs) ==
    IF segs = <<>> THEN dir ELSE WalkDirs(StepDir(dir, Head(segs)), Tail(segs))

\* the file a relative path names: <<directory, file name>>, or NoFile when a
\* directory on the way does not exist
Resolve(path) ==
    LET dir == WalkDirs(CWD, SubSeq(path, 1, Len(path) - 1))
    IN  IF dir = NoDir THEN NoFile ELSE <<dir, path[Len(path)]>>

\* os.path.join(SAVED_ARCHITECTURES_DIR, f"{diagram_id}.json"); a diagram_id
\* is kept as the sequence of its "/"-separated segments
DocumentPath(id) ==
    <<SAVED_ARCHITECTURES_DIR>> \o SubSeq(id, 1, Len(id) - 1) \o <<id[Len(id)] \o ".json">>

\* the file system after writing content to file
WriteFile(fs, file, content) ==
    [f \in DOMAIN fs \cup {file} |-> IF f = file THEN content ELSE fs[f]]

(***************************************************************************)
(* File contents and JSON                                                  *)
(***************************************************************************)
Blank == [kind |-> "blank"]                      \* empty or white space only
NotJsonText == [kind |-> "text"]                 \* text that is not JSON
JsonText(v) == [kind |-> "json", value |-> v]    \* the JSON text of value v

JNull == [t |-> "null"]
JStr(s) == [t |-> "str", v |-> s]
JList(xs) == [t |-> "list", v |-> xs]
JObj(f) == [t |-> "obj", v |-> f]

\* ---- model_dump_json: every field is written, None as null
OptStrJson(o) == IF o = None THEN JNull ELSE JStr(o[1])

ComponentJson(c) ==
    JObj([id |-> JStr(c.id), name |-> JStr(c.name), type |-> JStr(c.type),
          technology |-> OptStrJson(c.technology)])

ConnectionJson(k) ==
    JObj([id |-> JStr(k.id),
          source_component_id |-> JStr(k.source_component_id),
          target_component_id |-> JStr(k.target_component_id),
          protocol |-> OptStrJson(k.protocol)])

MetadataJson(m) ==
    IF m = None THEN JNull ELSE JObj([key \in DOMAIN m[1] |-> JStr(m[1][key])])

DiagramJson(d) ==
    JObj([diagram_id |-> JStr(d.diagram_id),
          name |-> JStr(d.name),
          description |-> OptStrJson(d.description),
          components |-> JList([i \in DOMAIN d.components |-> ComponentJson(d.components[i])]),
          connections |-> JList([i \in DOMAIN d.connections |-> ConnectionJson(d.connections[i])]),
          metadata |-> MetadataJson(d.metadata)])

model_dump_json(d) == JsonText(DiagramJson(d))

\* ---- model_validate_json: required str fields, optional fields, defaults
HasStr(o, key) == key \in DOMAIN o /\ o[key].t = "str"
OptStrOk(o, key) == key \notin DOMAIN o \/ o[key].t \in {"str", "null"}
OptStrOf(o, key) == IF key \in DOMAIN o /\ o[key].t = "str" THEN Some(o[key].v) ELSE None
ComponentValid(j) ==
    /\ j.t = "obj"
    /\ HasStr(j.v, "id") /\ HasStr(j.v, "name") /\ HasStr(j.v, "type")
    /\ OptStrOk(j.v, "technology")

ComponentOf(j) ==
    ArchitectureComponent(j.v["id"].v, j.v["name"].v, j.v["type"].v, OptStrOf(j.v, "technology"))

ConnectionValid(j) ==
    /\ j.t = "obj"
    /\ HasStr(j.v, "id")
    /\ HasStr(j.v, "source_component_id") /\ HasStr(j.v, "target_component_id")
    /\ OptStrOk(j.v, "protocol")

ConnectionOf(j) ==
    ArchitectureConnection(j.v["id"].v, j.v["source_component_id"].v,
                           j.v["target_component_id"].v, OptStrOf(j.v, "protocol"))

\* List[...] fields: a missing key takes the default []
ComponentsOk(o) ==
    "components" \notin DOMAIN o
    \/ (o["components"].t = "list"
        /\ \A i \in DOMAIN o["components"].v : ComponentValid(o["components"].v[i]))

ComponentsOf(o) ==
    IF "components" \in DOMAIN o
    THEN [i \in DOMAIN o["components"].v |-> ComponentOf(o["components"].v[i])]
    ELSE <<>>

ConnectionsOk(o) ==
    "connections" \notin DOMAIN o
    \/ (o["connections"].t = "list"
        /\ \A i \in DOMAIN o["connections"].v : ConnectionValid(o["connections"].v[i]))

ConnectionsOf(o) ==
    IF "connections" \in DOMAIN o
    THEN [i \in DOMAIN o["connections"].v |-> ConnectionOf(o["connections"].v[i])]
    ELSE <<>>

MetadataOk(o) ==
    "metadata" \notin DOMAIN o
    \/ o["metadata"].t = "null"
    \/ (o["metadata"].t = "obj" /\ \A key \in DOMAIN o["metadata"].v : o["metadata"].v[key].t = "str")

MetadataOf(o) ==
    IF "metadata" \in DOMAIN o /\ o["metadata"].t = "obj"
    THEN Some([key \in DOMAIN o["metadata"].v |-> o["metadata"].v[key].v])
    ELSE None

DiagramValid(j) ==
    /\ j.t = "obj"
    /\ HasStr(j.v, "diagram_id") /\ HasStr(j.v, "name")
    /\ OptStrOk(j.v, "description")
    /\ ComponentsOk(j.v)
    /\ ConnectionsOk(j.v)
    /\ MetadataOk(j.v)

DiagramOf(j) ==
    ArchitectureDiagram(j.v["diagram_id"].v, j.v["name"].v, OptStrOf(j.v, "description"),
                        ComponentsOf(j.v),
                        ConnectionsOf(j.v),
                        MetadataOf(j.v))

(***************************************************************************)
(* get_architecture_endpoint                                               *)
(***************************************************************************)
MutGetResponseEmptyAsMissing(fs, id) ==
    LET file == Resolve(DocumentPath(id))
    IN  IF file \notin DOMAIN fs \/ fs[file].kind = "blank"
        THEN [op |-> "get", id |-> id, status |-> 404, detail |-> "not found"]
        ELSE IF fs[file].kind # "json" \/ ~DiagramValid(fs[file].value)
        THEN [op |-> "get", id |-> id, status |-> 500, detail |-> "validation"]
        ELSE [op |-> "get", id |-> id, status |-> 200, body |-> DiagramOf(fs[file].value)]

GetResponse(fs, id) ==
    LET file == Resolve(DocumentPath(id))
    IN  IF file \notin DOMAIN fs
        THEN [op |-> "get", id |-> id, status |-> 404, detail |-> "not found"]
        ELSE IF fs[file].kind = "blank"
        \* the HTTPException of line 180 is caught by `except Exception` (line 197)
        THEN [op |-> "get", id |-> id, status |-> 500, detail |-> "unexpected: empty"]
        ELSE IF fs[file].kind # "json" \/ ~DiagramValid(fs[file].value)
        THEN [op |-> "get", id |-> id, status |-> 500, detail |-> "validation"]
        ELSE [op |-> "get", id |-> id, status |-> 200, body |-> DiagramOf(fs[file].value)]

(***************************************************************************)
(* upload_architecture_endpoint: the stored name is <uuid4><extension>.    *)
(* An uploaded file name is the sequence of its "."-separated parts.       *)
(***************************************************************************)
RECURSIVE JoinDots(_)
JoinDots(parts) ==
    IF Len(parts) = 1 THEN parts[1] ELSE parts[1] \o "." \o JoinDots(Tail(parts))

\* os.path.splitext(name)[1]: leading dots do not start an extension
SplitExt(parts) ==
    IF Len(parts) >= 2 /\ \E i \in 1..(Len(parts) - 1) : parts[i] # ""
    THEN "." \o parts[Len(parts)]
    ELSE ""

UploadExtension(parts) ==
    IF SplitExt(parts) # "" THEN SplitExt(parts)
    ELSE IF Len(parts) > 1 THEN "." \o JoinDots(Tail(parts))
    ELSE ""

(***************************************************************************)
(* Requests of the store                                                   *)
(***************************************************************************)
MaxOps == 3          \* store requests served in one run
MaxUploads == 1      \* uploads in one run

IdA == <<"a">>
IdB == <<"b">>
IdDotA == <<".", "a">>            \* the diagram_id "./a"
IdNested == <<"x", "a">>          \* the diagram_id "x/a"
IdNever == <<"zzz">>
UploadedId(n) == <<"..", UPLOADS_DIR, UuidStr(n)>>

Comp1 == ArchitectureComponent("c1", "Comp 1", "Service", None)
Comp2 == ArchitectureComponent("c2", "Comp 2", "Database", Some("PostgreSQL"))
Comp1Again == ArchitectureComponent("c1", "Comp 1 bis", "Service", None)
Conn12 == ArchitectureConnection("k1", "c1", "c2", Some("TCP"))
Conn21 == ArchitectureConnection("k1", "c2", "c1", None)

DiagramOne(id) ==
    ArchitectureDiagram(id, "Test Get Architecture", None, <<Comp1>>, <<>>, None)
DiagramTwo(id) ==
    ArchitectureDiagram(id, "Two", Some("two components"), <<Comp1, Comp2>>, <<Conn12>>,
                        Some([author |-> "AI Agent"]))
DiagramDangling(id) ==
    ArchitectureDiagram(id, "Dangling", None, <<Comp1>>, <<Conn12>>, None)
DiagramDupComponent(id) ==
    ArchitectureDiagram(id, "DupComponent", None, <<Comp1, Comp1Again>>, <<>>, None)
DiagramDupConnection(id) ==
    ArchitectureDiagram(id, "DupConnection", None, <<Comp1, Comp2>>, <<Conn12, Conn21>>, None)

SaveDiagrams ==
    { DiagramOne(IdA), DiagramTwo(IdA), DiagramDangling(IdA),
      DiagramDupComponent(IdA), DiagramDupConnection(IdA),
      DiagramOne(IdB), DiagramTwo(IdDotA), DiagramOne(IdNested) }

GetIds == { IdA, IdB, IdDotA, IdNested, IdNever } \cup { UploadedId(n) : n \in 0..(uuid - 1) }

UploadNames == { <<"d", "json">>, <<"d", "txt">>, <<"", "json">> }
UploadContents ==
    { Blank, NotJsonText, JsonText(JObj([diagram_id |-> JStr(IdA)])) }

\* save_architecture_endpoint; ioError says whether the write raises IOError
\* (the file is then left as open(path, "w") made it: empty)
Save(d, ioError) ==
    LET file == Resolve(DocumentPath(d.diagram_id))
        failed == file = NoFile \/ ioError
    IN  /\ nops < MaxOps
        /\ files' = IF file = NoFile THEN files
                    ELSE IF ioError THEN WriteFile(files, file, Blank)
                    ELSE WriteFile(files, file, model_dump_json(d))
        /\ response' = IF failed
                       THEN [op |-> "save", status |-> 500, detail |-> "Could not save architecture file"]
                       ELSE [op |-> "save", status |-> 200, diagram_id |-> d.diagram_id]
        /\ lastSaved' = [k \in DOMAIN lastSaved \cup {d.diagram_id} |->
                           IF k = d.diagram_id
                           THEN [diagram |-> d, status |-> IF failed THEN 500 ELSE 200]
                           ELSE lastSaved[k]]
        /\ nops' = nops + 1
        /\ UNCHANGED <<prompt, uuid, saving, getting>>

Get(id) ==
    /\ nops < MaxOps
    /\ response' = GetResponse(files, id)
    /\ nops' = nops + 1
    /\ UNCHANGED <<prompt, uuid, files, lastSaved, saving, getting>>

Upload(name, content) ==
    LET unique_filename == UuidStr(uuid) \o UploadExtension(name)
    IN  /\ nops < MaxOps
        /\ uuid < MaxUploads
        /\ files' = WriteFile(files, Resolve(<<UPLOADS_DIR, unique_filename>>), content)
        /\ response' = [op |-> "upload", status |-> 200, file_id |-> unique_filename]
        /\ uuid' = uuid + 1
        /\ nops' = nops + 1
        /\ UNCHANGED <<prompt, lastSaved, saving, getting>>

InitStore ==
    /\ prompt = <<>>
    /\ uuid = 0
    /\ response = NoResponse
    /\ files = <<>>
    /\ lastSaved = <<>>
    /\ nops = 0
    /\ saving = None
    /\ getting = None

NextStore ==
    \/ \E d \in SaveDiagrams, ioError \in BOOLEAN : Save(d, ioError)
    \/ \E id \in GetIds : Get(id)
    \/ \E name \in UploadNames, content \in UploadContents : Upload(name, content)

SpecStore == InitStore /\ [][NextStore]_vars

(***************************************************************************)
(* The store served by more than one worker process.  The handlers take no *)
(* lock and write in place, so between two workers the file system calls   *)
(* of a save (open(path, "w"), then the write flushed when the file is     *)
(* closed) interleave with those of a get (os.path.exists, then open and   *)
(* read).  One save and one get are in flight at a time.                   *)
(***************************************************************************)
\* line 150: open(file_path, "w") creates the file or truncates it
SaveOpen(d) ==
    LET file == Resolve(DocumentPath(d.diagram_id))
    IN  /\ saving = None
        /\ nops < MaxOps
        /\ nops' = nops + 1
        /\ IF file = NoFile
           THEN /\ response' = [op |-> "save", status |-> 500, detail |-> "Could not save architecture file"]
                /\ lastSaved' = [k \in DOMAIN lastSaved \cup {d.diagram_id} |->
                                   IF k = d.diagram_id THEN [diagram |-> d, status |-> 500]
                                   ELSE lastSaved[k]]
                /\ UNCHANGED <<files, saving>>
           ELSE /\ files' = WriteFile(files, file, Blank)
                /\ saving' = Some([diagram |-> d, file |-> file,
                                   before |-> IF file \in DOMAIN files THEN Some(files[file]) ELSE None,
                                   observed |-> {}])
                /\ UNCHANGED <<response, lastSaved>>
        /\ UNCHANGED <<prompt, uuid, getting>>

\* lines 151-157: the document is written and the file closed
SaveClose ==
    /\ saving # None
    /\ files' = WriteFile(files, saving[1].file, model_dump_json(saving[1].diagram))
    /\ response' = [op |-> "save", status |-> 200, diagram_id |-> saving[1].diagram.diagram_id]
    /\ lastSaved' = [k \in DOMAIN lastSaved \cup {saving[1].diagram.diagram_id} |->
                       IF k = saving[1].diagram.diagram_id
                       THEN [diagram |-> saving[1].diagram, status |-> 200]
                       ELSE lastSaved[k]]
    /\ saving' = None
    /\ UNCHANGED <<prompt, uuid, nops, getting>>

\* lines 172-173: os.path.exists
GetExists(id) ==
    /\ getting = None
    /\ nops < MaxOps
    /\ nops' = nops + 1
    /\ IF Resolve(DocumentPath(id)) \notin DOMAIN files
       THEN response' = GetResponse(files, id) /\ UNCHANGED getting
       ELSE getting' = Some([id |-> id]) /\ UNCHANGED response
    /\ UNCHANGED <<prompt, uuid, files, lastSaved, saving>>

\* lines 175-200: open, read, validate.  A get that ends while a save is in
\* flight is recorded with that save.
GetRead ==
    /\ getting # None
    /\ response' = GetResponse(files, getting[1].id)
    /\ getting' = None
    /\ saving' = IF saving = None THEN None
                 ELSE Some([saving[1] EXCEPT !.observed = @ \cup {GetResponse(files, getting[1].id)}])
    /\ UNCHANGED <<prompt, uuid, files, lastSaved, nops>>

NextConc ==
    \/ \E d \in SaveDiagrams : SaveOpen(d)
    \/ SaveClose
    \/ \E id \in GetIds : GetExists(id)
    \/ GetRead

SpecConc == InitStore /\ [][NextConc]_vars

(***************************************************************************)
(* Properties of the synthesised diagram                                   *)
(***************************************************************************)
Generated == response.op = "generate"
Diagram == response.body
PromptLower == Lower(prompt)

IdsOf(seq) == { seq[i].id : i \in DOMAIN seq }
NoDuplicateIds(seq) == \A i, j \in DOMAIN seq : i # j => seq[i].id # seq[j].id
ComponentsOfType(d, t) == { i \in DOMAIN d.components : d.components[i].type = t }
ComponentsNamed(d, n) == { i \in DOMAIN d.components : d.components[i].name = n }
ConnectionsFromTo(d, s, t) ==
    { i \in DOMAIN d.connections :
        d.connections[i].source_component_id = s /\ d.connections[i].target_component_id = t }
ConnectionsTouching(d, c) ==
    { i \in DOMAIN d.connections :
        d.connections[i].source_component_id = c \/ d.connections[i].target_component_id = c }

HasAndroid  == Contains(kw_android, PromptLower)
HasIos      == Contains(kw_ios, PromptLower)
HasWeb      == Contains(kw_web, PromptLower) \/ Contains(kw_browser, PromptLower)
HasBackend  == Contains(kw_api, PromptLower) \/ Contains(kw_backend, PromptLower)
HasDatabase == Contains(kw_database, PromptLower) \/ Contains(kw_storage, PromptLower)

\* C1: in every generated diagram each connection's source and target are ids
\* of components of that diagram, and no id is repeated among the components
\* or among the connections.
C1_ReferentialIntegrity ==
    Generated =>
        /\ \A i \in DOMAIN Diagram.connections :
              /\ Diagram.connections[i].source_component_id \in IdsOf(Diagram.components)
              /\ Diagram.connections[i].target_component_id \in IdsOf(Diagram.components)
        /\ NoDuplicateIds(Diagram.components)
        /\ NoDuplicateIds(Diagram.connections)

C1_Witness ==
    /\ Generated
    /\ HasAndroid /\ HasIos /\ HasWeb /\ HasBackend /\ HasDatabase
    /\ Len(Diagram.connections) = 7

\* C2: for every prompt (the empty one included) the synthesis yields at least
\* one component, and the handler answers 200 with a diagram that has at least
\* one component.
C2_TotalAndNonEmpty ==
    /\ response = NoResponse => Len(Synthesize(prompt, uuid).components) >= 1
    /\ Generated => response.status = 200 /\ Len(Diagram.components) >= 1

C2_Witness ==
    Generated /\ prompt = <<>> /\ Len(Diagram.components) = 1

\* C8: when the prompt contains "api" or "backend" (any number of times, with
\* any other triggers) the diagram has exactly one API Gateway, exactly two
\* Microservice components, named User Service and Product Service, and exactly
\* two connections leaving the gateway, one to each service.
C8_BackendTierOnce ==
    (Generated /\ HasBackend) =>
        LET d == Diagram
            gws == ComponentsOfType(d, "APIGateway")
            svs == ComponentsOfType(d, "Microservice")
        IN  /\ Cardinality(gws) = 1
            /\ Cardinality(ComponentsNamed(d, "API Gateway")) = 1
            /\ Cardinality(svs) = 2
            /\ { d.components[i].name : i \in svs } = {"User Service", "Product Service"}
            /\ \A g \in gws :
                 LET fromGw == { i \in DOMAIN d.connections :
                                   d.connections[i].source_component_id = d.components[g].id }
                 IN  /\ Cardinality(fromGw) = 2
                     /\ \A s \in svs :
                          Cardinality(ConnectionsFromTo(d, d.components[g].id, d.components[s].id)) = 1

C8_Witness ==
    /\ Generated
    /\ prompt = <<"A","P","I">> \o <<"b","a","c","k","e","n","d">> \o <<"W","e","b","A","P","I">>
    /\ Cardinality(ComponentsOfType(Diagram, "Microservice")) = 2

\* C9: when the prompt contains "database" or "storage" the diagram has exactly
\* one Database component; if backend services were created each of them is the
\* source of exactly one connection to the database, and if none was created
\* the database takes part in no connection.
C9_DatabaseWiring ==
    (Generated /\ HasDatabase) =>
        LET d == Diagram
            dbs == ComponentsOfType(d, "Database")
            svs == ComponentsOfType(d, "Microservice")
        IN  /\ Cardinality(dbs) = 1
            /\ \A b \in dbs :
                 IF svs # {}
                 THEN \A s \in svs :
                        /\ Cardinality(ConnectionsFromTo(d, d.components[s].id, d.components[b].id)) = 1
                        /\ Cardinality({ i \in DOMAIN d.connections :
                                           /\ d.connections[i].source_component_id = d.components[s].id
                                           /\ d.components[b].id = d.connections[i].target_component_id }) = 1
                 ELSE ConnectionsTouching(d, d.components[b].id) = {}

C9_Witness ==
    /\ Generated /\ HasDatabase /\ HasBackend
    /\ Cardinality({ i \in DOMAIN Diagram.connections :
                       Diagram.connections[i].protocol = Some("TCP/IP (specific to DB)") }) = 2

C9_WitnessUnconnected ==
    /\ Generated /\ HasDatabase /\ ~HasBackend
    /\ Cardinality(ComponentsOfType(Diagram, "Database")) = 1
    /\ Diagram.connections = <<>>

\* C10: the client triggers are tested independently (one client component per
\* trigger that matches; three, one of each kind, when android, ios and web all
\* match); with a gateway every client is the source of exactly one connection
\* to the gateway and these are all the connections that leave a client; with
\* no gateway or no client there is no client connection.
Count(bool) == IF bool THEN 1 ELSE 0

ClientIndices(d) == ComponentsOfType(d, "MobileClient") \cup ComponentsOfType(d, "WebClient")

ConnectionsFromClients(d) ==
    { i \in DOMAIN d.connections :
        \E c \in ClientIndices(d) : d.connections[i].source_component_id = d.components[c].id }

C10_ClientTier ==
    Generated =>
        LET d == Diagram
            cls == ClientIndices(d)
            gws == ComponentsOfType(d, "APIGateway")
        IN  /\ Cardinality(ComponentsNamed(d, "Android Client")) = Count(HasAndroid)
            /\ Cardinality(ComponentsNamed(d, "iOS Client")) = Count(HasIos)
            /\ Cardinality(ComponentsNamed(d, "Web Client")) = Count(HasWeb)
            /\ Cardinality(cls) = Count(HasAndroid) + Count(HasIos) + Count(HasWeb)
            /\ (HasAndroid /\ HasIos /\ HasWeb) =>
                  /\ Cardinality(cls) = 3
                  /\ { d.components[i].name : i \in cls } = {"Android Client", "iOS Client", "Web Client"}
            /\ IF gws # {} /\ cls # {}
               THEN /\ Cardinality(ConnectionsFromClients(d)) = Cardinality(cls)
                    /\ \A g \in gws, c \in cls :
                         Cardinality(ConnectionsFromTo(d, d.components[c].id, d.components[g].id)) = 1
               ELSE /\ ConnectionsFromClients(d) = {}
                    /\ \A g \in gws :
                         { i \in DOMAIN d.connections :
                             d.connections[i].target_component_id = d.components[g].id } = {}

C10_Witness ==
    /\ Generated /\ HasAndroid /\ HasIos /\ HasWeb /\ HasBackend
    /\ Cardinality(ConnectionsFromClients(Diagram)) = 3

\* C11: when the prompt matches none of the trigger keywords (android, ios,
\* web, browser, api, backend, database, storage) the diagram has exactly one
\* component, named "Default Application Core", and no connection.
NoTrigger == ~HasAndroid /\ ~HasIos /\ ~HasWeb /\ ~HasBackend /\ ~HasDatabase

C11_FallbackOnly ==
    (Generated /\ NoTrigger) =>
        /\ Len(Diagram.components) = 1
        /\ Diagram.components[1].name = "Default Application Core"
        /\ Diagram.connections = <<>>

C11_Witness ==
    /\ Generated /\ NoTrigger /\ prompt # <<>>
    /\ Cardinality(ComponentsNamed(Diagram, "Default Application Core")) = 1
    /\ Len(Diagram.components) = 1


\* C12: in every generated diagram the "Default Application Core" component
\* is present only when no trigger keyword matched and takes part in no
\* connection; no diagram holds both the default component and a Database
\* component, and none holds two Database components (the fallback's own
\* database branch never runs).
C12_FallbackUnwired ==
    Generated =>
        LET d == Diagram
            defaults == ComponentsNamed(d, "Default Application Core")
            dbs == ComponentsOfType(d, "Database")
        IN  /\ defaults # {} => NoTrigger
            /\ Cardinality(defaults) <= 1
            /\ \A i \in defaults : ConnectionsTouching(d, d.components[i].id) = {}
            /\ ~(defaults # {} /\ dbs # {})
            /\ Cardinality(dbs) <= 1
            /\ \A i \in DOMAIN d.connections :
                  d.connections[i].protocol = Some("TCP/IP (specific to DB)") =>
                      \E s \in ComponentsOfType(d, "Microservice") :
                          d.connections[i].source_component_id = d.components[s].id

C12_Witness ==
    /\ Generated /\ HasDatabase
    /\ Len(Diagram.components) = 1
    /\ Diagram.components[1].type = "Database"
    /\ ComponentsNamed(Diagram, "Default Application Core") = {}
    /\ Diagram.connections = <<>>

(***************************************************************************)
(* Properties of the store                                                 *)
(***************************************************************************)
GotResponse == response.op = "get"
DocumentExists(id) == Resolve(DocumentPath(id)) \in DOMAIN files
StoredText(id) == files[Resolve(DocumentPath(id))]

\* the ArchitectureDiagram invariants of the data model
InvariantsHold(d) ==
    /\ \A i \in DOMAIN d.connections :
          /\ d.connections[i].source_component_id \in IdsOf(d.components)
          /\ d.connections[i].target_component_id \in IdsOf(d.components)
    /\ NoDuplicateIds(d.components)
    /\ NoDuplicateIds(d.connections)

\* C3: a get of key k, when the most recent save call with diagram_id k
\* succeeded with diagram d (no other save to that key since), answers 200
\* with a diagram equal to d.
C3_RoundTrip ==
    (GotResponse /\ response.id \in DOMAIN lastSaved /\ lastSaved[response.id].status = 200) =>
        /\ response.status = 200
        /\ response.body = lastSaved[response.id].diagram

\* C4: a get of an identifier never passed to save as a diagram_id answers 404.
C4_NeverSavedIsNotFound ==
    (GotResponse /\ response.id \notin DOMAIN lastSaved) => response.status = 404

\* C6: in every state, for every key k whose most recent save succeeded, a get
\* of k would return exactly the diagram of that save, whatever was saved
\* before under k or under any other diagram_id.
C6_LastWriteWinsPerKey ==
    \A k \in DOMAIN lastSaved :
        lastSaved[k].status = 200 =>
            /\ GetResponse(files, k).status = 200
            /\ GetResponse(files, k).body = lastSaved[k].diagram

\* C7 as stated: a get of a key whose document exists but is empty, is not
\* well-formed, or does not satisfy the ArchitectureDiagram invariants
\* (required fields, endpoints resolving, no duplicate ids) answers 500.
C7_CorruptIsRejected ==
    (GotResponse /\ DocumentExists(response.id)) =>
        LET text == StoredText(response.id)
        IN  (\/ text.kind # "json"
             \/ ~DiagramValid(text.value)
             \/ ~InvariantsHold(DiagramOf(text.value)))
            => response.status = 500

\* C7 amended: a get of a key whose document exists but is empty, is not
\* well-formed JSON or fails the ArchitectureDiagram schema (a required field
\* missing, a field of the wrong type) answers 500, never 404 and never a
\* diagram; every other document is returned whole with 200, also when a
\* connection endpoint names no component or an id is repeated.
C7_SchemaOnlyValidation ==
    (GotResponse /\ DocumentExists(response.id)) =>
        LET text == StoredText(response.id)
        IN  IF text.kind # "json" \/ ~DiagramValid(text.value)
            THEN response.status = 500 /\ "body" \notin DOMAIN response
            ELSE response.status = 200 /\ response.body = DiagramOf(text.value)

C7_Witness ==
    /\ GotResponse /\ DocumentExists(response.id)
    /\ StoredText(response.id).kind = "json"
    /\ ~DiagramValid(StoredText(response.id).value)
    /\ response.status = 500

C7_WitnessEmpty ==
    GotResponse /\ DocumentExists(response.id) /\ StoredText(response.id) = Blank
    /\ response.status = 500

C7_WitnessDangling ==
    /\ GotResponse /\ DocumentExists(response.id)
    /\ response.status = 200
    /\ ~InvariantsHold(response.body)

\* C5: every get that ended while a save to the same diagram_id was in flight,
\* when a valid document was stored under that key before the save began,
\* answered 200 with the previous diagram or with the diagram being saved.
C5_NoTornRead ==
    saving # None =>
        LET s == saving[1]
        IN  (s.before # None /\ s.before[1].kind = "json" /\ DiagramValid(s.before[1].value)) =>
                \A r \in s.observed :
                    r.id = s.diagram.diagram_id =>
                        /\ r.status = 200
                        /\ r.body \in {DiagramOf(s.before[1].value), s.diagram}

\* The serialisation itself is faithful: a get that directly follows a
\* successful save of d, with the key of d, returns a diagram equal to d.
RoundTripImmediate ==
    [][ (response.op = "save" /\ response.status = 200
         /\ response'.op = "get" /\ response'.id = response.diagram_id)
        => (response'.status = 200 /\ response'.body = lastSaved[response.diagram_id].diagram) ]_vars

====
